---- MODULE Spec2Model ----
(***************************************************************************)
(* A model of wc.cpp: the counting loop wc(), the per-source callers       *)
(* wc_file(), the formatter write_counts(), option parsing and main().     *)
(*                                                                         *)
(* Spec     runs wc() one loop iteration at a time over one stream.        *)
(* SpecMain runs main() over an argument vector; each call of wc() it      *)
(*          makes is the same loop, iterated to its end.                   *)
(***************************************************************************)
EXTENDS Integers, Sequences, FiniteSets, TLC

\* ------------------------------------------------------------------ bounds
\* std::uintmax_t is modelled UINTMAX_BITS wide (the arithmetic is the same
\* modular arithmetic, scaled down so that totals can reach the maximum).
UINTMAX_BITS == 6
\* longest enumerated input of wc() in Spec
MaxLen == 3
\* the read buffer of wc(), scaled down from 262144 so that inputs span chunks
bufsize == 2
\* most positional arguments of a run in SpecMain
MaxArgs == 3
\* most option arguments of a run in SpecMain
MaxFlags == 1

\* ------------------------------------------------------------- arithmetic
UINTMAX_MAX == 2^UINTMAX_BITS - 1

\* unsigned arithmetic of std::uintmax_t
Wrap(x) == x % (UINTMAX_MAX + 1)

Max(a, b) == IF a < b THEN b ELSE a

Min(a, b) == IF a < b THEN a ELSE b

tab_width == 8

EXIT_SUCCESS == 0

EXIT_FAILURE == 1

\* ------------------------------------------------------------------ bytes
NL == 10
CR == 13
FF == 12
TAB == 9
SP == 32
VT == 11
\* a printable letter and a control byte that is neither printable nor space
LetterA == 97
CtrlA == 1

\* <cctype> in the "C" classification, for 7-bit bytes
isspace(c) == c \in {9, 10, 11, 12, 13, 32}

isprint(c) == c \in 32..126

\* ---------------------------------------------------------------- records
AllOptions == [count_bytes : BOOLEAN, count_lines : BOOLEAN,
               count_words : BOOLEAN, count_max_line_length : BOOLEAN]

NoOptions == [count_bytes |-> FALSE, count_lines |-> FALSE,
              count_words |-> FALSE, count_max_line_length |-> FALSE]

\* FileStatistics {} : every counter zero
ZeroStats == [lines |-> 0, words |-> 0, bytes |-> 0, max_line_length |-> 0]

\* A std::istream: the bytes behind it, the read position, failbit/eofbit,
\* badbit, and the byte offset at which the device faults (-1: never).
NoFault == -1

Stream(data, failbit, faultAt) ==
    [data |-> data, pos |-> 0, fail |-> failbit, bad |-> FALSE,
     faultAt |-> faultAt]

\* `while (is)` / `if (not is)`: neither failbit nor badbit
Good(is) == ~is.fail /\ ~is.bad

\* is.read(buf, bufsize): the bytes extracted and the stream afterwards.
\* Fewer than bufsize bytes set eofbit|failbit; a device fault sets badbit
\* and leaves what was extracted before it.
is_read(is) ==
    LET avail == Len(is.data) - is.pos
        want  == Min(bufsize, avail)
        hit   == is.faultAt # NoFault /\ is.faultAt < is.pos + bufsize
                 /\ is.faultAt <= Len(is.data)
        count == IF hit THEN Max(is.faultAt - is.pos, 0) ELSE want
    IN  [buf |-> SubSeq(is.data, is.pos + 1, is.pos + count),
         is  |-> [is EXCEPT !.pos = is.pos + count,
                            !.bad = hit,
                            !.fail = (~hit /\ count < bufsize)]]

\* ------------------------------------------------------------------- wc()
\* The locals of wc(): stats, line_pos, in_word.
WcLocals0 == [stats |-> ZeroStats, line_pos |-> 0, in_word |-> FALSE]

\* wc_switch with the line counted on \r as well as on \n
wc_switch_cr_counts_line(w, c) ==
    CASE c \in {NL, CR} ->
           [stats |-> [w.stats EXCEPT
                         !.lines = Wrap(w.stats.lines + 1),
                         !.max_line_length =
                             Max(w.line_pos, w.stats.max_line_length)],
            line_pos |-> 0, in_word |-> FALSE]
      [] c = FF ->
           [stats |-> [w.stats EXCEPT
                         !.max_line_length =
                             Max(w.line_pos, w.stats.max_line_length)],
            line_pos |-> 0, in_word |-> FALSE]
      [] c = TAB ->
           [w EXCEPT !.line_pos =
                        Wrap(w.line_pos + (tab_width - (w.line_pos % tab_width))),
                     !.in_word = FALSE]
      [] c = SP ->
           [w EXCEPT !.line_pos = Wrap(w.line_pos + 1), !.in_word = FALSE]
      [] c = VT ->
           [w EXCEPT !.in_word = FALSE]
      [] OTHER ->
           LET in_word2 == ~isspace(c)
           IN  [stats |-> [w.stats EXCEPT
                             !.words = Wrap(w.stats.words +
                                 (IF ~w.in_word /\ in_word2 THEN 1 ELSE 0))],
                line_pos |-> Wrap(w.line_pos + (IF isprint(c) THEN 1 ELSE 0)),
                in_word |-> in_word2]

\* the switch on one byte, wc.cpp:210-242
wc_switch(w, c) ==
    CASE c = NL ->
           [stats |-> [w.stats EXCEPT
                         !.lines = Wrap(w.stats.lines + 1),
                         !.max_line_length =
                             Max(w.line_pos, w.stats.max_line_length)],
            line_pos |-> 0, in_word |-> FALSE]
      [] c \in {CR, FF} ->
           [stats |-> [w.stats EXCEPT
                         !.max_line_length =
                             Max(w.line_pos, w.stats.max_line_length)],
            line_pos |-> 0, in_word |-> FALSE]
      [] c = TAB ->
           [w EXCEPT !.line_pos =
                        Wrap(w.line_pos + (tab_width - (w.line_pos % tab_width))),
                     !.in_word = FALSE]
      [] c = SP ->
           [w EXCEPT !.line_pos = Wrap(w.line_pos + 1), !.in_word = FALSE]
      [] c = VT ->
           [w EXCEPT !.in_word = FALSE]
      [] OTHER ->
           LET in_word2 == ~isspace(c)
           IN  [stats |-> [w.stats EXCEPT
                             !.words = Wrap(w.stats.words +
                                 (IF ~w.in_word /\ in_word2 THEN 1 ELSE 0))],
                line_pos |-> Wrap(w.line_pos + (IF isprint(c) THEN 1 ELSE 0)),
                in_word |-> in_word2]

\* the for loop over one chunk, wc.cpp:207-243
RECURSIVE wc_for(_, _, _)
wc_for(w, buf, i) ==
    IF i > Len(buf) THEN w ELSE wc_for(wc_switch(w, buf[i]), buf, i + 1)

\* wc_chunk with in_word declared inside the read loop: every chunk starts
\* outside a word
wc_chunk_in_word_per_chunk(opts, w, buf) ==
    LET w1 == [w EXCEPT !.stats.bytes = Wrap(w.stats.bytes + Len(buf)),
                        !.in_word = FALSE]
    IN  IF opts.count_lines \/ opts.count_max_line_length \/ opts.count_words
        THEN wc_for(w1, buf, 1)
        ELSE w1

\* wc_chunk with the byte count inside the classification branch
wc_chunk_bytes_if_classified(opts, w, buf) ==
    IF opts.count_lines \/ opts.count_max_line_length \/ opts.count_words
    THEN wc_for([w EXCEPT !.stats.bytes = Wrap(w.stats.bytes + Len(buf))],
                buf, 1)
    ELSE w

\* what one chunk of `count` bytes does to the locals, wc.cpp:203-244
wc_chunk(opts, w, buf) ==
    LET w1 == [w EXCEPT !.stats.bytes = Wrap(w.stats.bytes + Len(buf))]
    IN  IF opts.count_lines \/ opts.count_max_line_length \/ opts.count_words
        THEN wc_for(w1, buf, 1)
        ELSE w1

\* wc.cpp:247-252: the final max and the std::expected that is returned
Unexpected == [ok |-> FALSE]

\* wc_return without the final max over the unterminated last line
wc_return_no_final_max(w, is) ==
    IF is.bad THEN Unexpected ELSE [ok |-> TRUE, stats |-> w.stats]

wc_return(w, is) ==
    IF is.bad
    THEN Unexpected
    ELSE [ok |-> TRUE,
          stats |-> [w.stats EXCEPT !.max_line_length =
                        Max(w.line_pos, w.stats.max_line_length)]]

\* wc() run to its end from the loop state st = [w, is]: the returned value
\* and the stream it leaves behind
RECURSIVE wc_loop(_, _)
wc_loop(opts, st) ==
    IF ~Good(st.is)
    THEN [ret |-> wc_return(st.w, st.is), is |-> st.is]
    ELSE LET r == is_read(st.is)
         IN  IF Len(r.buf) = 0
             THEN [ret |-> wc_return(st.w, r.is), is |-> r.is]
             ELSE wc_loop(opts, [w |-> wc_chunk(opts, st.w, r.buf), is |-> r.is])

wc(opts, is) == wc_loop(opts, [w |-> WcLocals0, is |-> is])

\* ----------------------------------------------------------- chkd_add()
\* chkd_add without the check: the sum is stored as it wraps
chkd_add_unchecked(res, a, b) == [ok |-> TRUE, res |-> Wrap(a + b)]

\* wc.cpp:92-100: res is written only when the sum did not wrap
chkd_add(res, a, b) ==
    IF Wrap(a + b) < a
    THEN [ok |-> FALSE, res |-> res]
    ELSE [ok |-> TRUE, res |-> Wrap(a + b)]

\* ------------------------------------------------------- write_counts()
Nullptr == "<nullptr>"

Col(on, name, v) == IF on THEN <<[name |-> name, value |-> v]>> ELSE <<>>

\* wc.cpp:102-134: one flushed line, the requested fields in a fixed order
write_counts(opts, stats, file) ==
    [cols |-> Col(opts.count_lines, "lines", stats.lines)
              \o Col(opts.count_words, "words", stats.words)
              \o Col(opts.count_bytes, "bytes", stats.bytes)
              \o Col(opts.count_max_line_length, "max_line_length",
                     stats.max_line_length),
     file |-> file]

\* what help() writes to standard output
HelpText == [cols |-> <<>>, file |-> "<help>"]

\* the messages written to std::cerr
usage_err == [msg |-> "usage", file |-> Nullptr]

read_err(file) == [msg |-> "failed to process", file |-> file]

OverflowErr(what) == [msg |-> "integer overflow in total", file |-> what]

IsDirErr(file) == [msg |-> "Is a directory", file |-> file]

NoSuchFileErr(file) == [msg |-> "No such file or directory", file |-> file]

\* ------------------------------------------------------- parse_options()
\* An option argument, short or long form; "?" is one getopt_long rejects.
Flags == {"c", "l", "L", "w", "h", "?"}

\* wc.cpp:149-181
RECURSIVE parse_options_loop(_, _, _)
parse_options_loop(opts, flags, k) ==
    IF k > Len(flags) THEN [ok |-> TRUE, options |-> opts]
    ELSE CASE flags[k] = "c" ->
                parse_options_loop([opts EXCEPT !.count_bytes = TRUE], flags, k + 1)
           [] flags[k] = "l" ->
                parse_options_loop([opts EXCEPT !.count_lines = TRUE], flags, k + 1)
           [] flags[k] = "L" ->
                parse_options_loop([opts EXCEPT !.count_max_line_length = TRUE],
                                   flags, k + 1)
           [] flags[k] = "w" ->
                parse_options_loop([opts EXCEPT !.count_words = TRUE], flags, k + 1)
           [] flags[k] = "h" ->
                [ok |-> FALSE, error |-> "help_requested"]
           [] OTHER ->
                [ok |-> FALSE, error |-> "unknown_option"]

parse_options(flags) == parse_options_loop(NoOptions, flags, 1)

\* default_options setting all four flags
default_options_all_four(opts) ==
    IF ~(opts.count_lines \/ opts.count_words \/ opts.count_bytes
         \/ opts.count_max_line_length)
    THEN [count_bytes |-> TRUE, count_lines |-> TRUE, count_words |-> TRUE,
          count_max_line_length |-> TRUE]
    ELSE opts

\* wc.cpp:325-329
default_options(opts) ==
    IF ~(opts.count_lines \/ opts.count_words \/ opts.count_bytes
         \/ opts.count_max_line_length)
    THEN [opts EXCEPT !.count_lines = TRUE, !.count_words = TRUE,
                      !.count_bytes = TRUE]
    ELSE opts

\* ------------------------------------------------------------- wc_file()
\* fold_total with the total's max_line_length overwritten by the latest
\* source instead of maximised
fold_total_last_width(total, stats) ==
    LET t0 == [total EXCEPT !.max_line_length = stats.max_line_length]
        l  == chkd_add(t0.lines, t0.lines, stats.lines)
        t1 == [t0 EXCEPT !.lines = l.res]
        w  == chkd_add(t1.words, t1.words, stats.words)
        t2 == [t1 EXCEPT !.words = w.res]
        b  == chkd_add(t2.bytes, t2.bytes, stats.bytes)
        t3 == [t2 EXCEPT !.bytes = b.res]
    IN  IF ~l.ok
        THEN [status |-> EXIT_FAILURE, total |-> t1, err |-> <<OverflowErr("lines")>>]
        ELSE IF ~w.ok
        THEN [status |-> EXIT_FAILURE, total |-> t2, err |-> <<OverflowErr("words")>>]
        ELSE IF ~b.ok
        THEN [status |-> EXIT_FAILURE, total |-> t3, err |-> <<OverflowErr("bytes")>>]
        ELSE [status |-> EXIT_SUCCESS, total |-> t3, err |-> <<>>]

\* wc.cpp:270-286: the fold of one source's statistics into the total
fold_total(total, stats) ==
    LET t0 == [total EXCEPT !.max_line_length =
                  Max(stats.max_line_length, total.max_line_length)]
        l  == chkd_add(t0.lines, t0.lines, stats.lines)
        t1 == [t0 EXCEPT !.lines = l.res]
        w  == chkd_add(t1.words, t1.words, stats.words)
        t2 == [t1 EXCEPT !.words = w.res]
        b  == chkd_add(t2.bytes, t2.bytes, stats.bytes)
        t3 == [t2 EXCEPT !.bytes = b.res]
    IN  IF ~l.ok
        THEN [status |-> EXIT_FAILURE, total |-> t1, err |-> <<OverflowErr("lines")>>]
        ELSE IF ~w.ok
        THEN [status |-> EXIT_FAILURE, total |-> t2, err |-> <<OverflowErr("words")>>]
        ELSE IF ~b.ok
        THEN [status |-> EXIT_FAILURE, total |-> t3, err |-> <<OverflowErr("bytes")>>]
        ELSE [status |-> EXIT_SUCCESS, total |-> t3, err |-> <<>>]

\* wc_file for named sources with a read fault made fatal, as in the overload
\* for the implicit standard input
wc_file_total_fault_fatal(opts, is, file, n, total) ==
    LET r == wc(opts, is)
    IN  IF ~r.ret.ok
        THEN [status |-> EXIT_FAILURE, out |-> <<>>, err |-> <<read_err(file)>>,
              total |-> total, is |-> r.is, ret |-> r.ret]
        ELSE LET f == IF n > 1 THEN fold_total(total, r.ret.stats)
                      ELSE [status |-> EXIT_SUCCESS, total |-> total, err |-> <<>>]
             IN  [status |-> f.status,
                  out |-> <<write_counts(opts, r.ret.stats, file)>>,
                  err |-> f.err, total |-> f.total, is |-> r.is, ret |-> r.ret]

\* wc.cpp:255-288: the overload for named sources
wc_file_total(opts, is, file, n, total) ==
    LET r == wc(opts, is)
    IN  IF ~r.ret.ok
        THEN [status |-> EXIT_SUCCESS, out |-> <<>>, err |-> <<read_err(file)>>,
              total |-> total, is |-> r.is, ret |-> r.ret]
        ELSE LET f == IF n > 1 THEN fold_total(total, r.ret.stats)
                      ELSE [status |-> EXIT_SUCCESS, total |-> total, err |-> <<>>]
             IN  [status |-> f.status,
                  out |-> <<write_counts(opts, r.ret.stats, file)>>,
                  err |-> f.err, total |-> f.total, is |-> r.is, ret |-> r.ret]

\* wc.cpp:290-304: the overload for the implicit standard input
wc_file_stdin(opts, is, file) ==
    LET r == wc(opts, is)
    IN  IF ~r.ret.ok
        THEN [status |-> EXIT_FAILURE, out |-> <<>>, err |-> <<read_err(file)>>,
              is |-> r.is, ret |-> r.ret]
        ELSE [status |-> EXIT_SUCCESS,
              out |-> <<write_counts(opts, r.ret.stats, Nullptr)>>,
              err |-> <<>>, is |-> r.is, ret |-> r.ret]

\* ------------------------------------------------------------------ state
VARIABLES
    \* wc(): its arguments, its locals, its position and its return value
    wopt, is, w, wpc, wret,
    \* main(): the option arguments, the positional arguments (each path
    \* named after what the file system says it is), standard input
    argv_flags, argv_files, cin,
    \* main(): its locals, its position, the two output streams, the exit status
    options, mpc, i, nfiles, total_stats, out, err, exit_status,
    \* history: for every source visited so far, what wc() returned on it
    rets

wcvars == <<wopt, is, w, wpc, wret>>

mainvars == <<argv_flags, argv_files, cin, options, mpc, i, nfiles,
              total_stats, out, err, exit_status, rets>>

vars == <<wopt, is, w, wpc, wret, argv_flags, argv_files, cin, options, mpc,
          i, nfiles, total_stats, out, err, exit_status, rets>>

\* ----------------------------------------------------------------- inputs
Alphabet == {NL, CR, FF, TAB, SP, VT, LetterA, CtrlA}

SeqsUpTo(S, n) == UNION {[1..k -> S] : k \in 0..n}

\* "abc", "abc\n", "a\tb", "  hello   world  ", "a\nb\n", "c\n"
Abc == <<97, 98, 99>>
AbcNl == <<97, 98, 99, 10>>
ATabB == <<97, 9, 98>>
HelloWorld == <<32, 32, 104, 101, 108, 108, 111, 32, 32, 32,
                119, 111, 114, 108, 100, 32, 32>>
ANlBNl == <<97, 10, 98, 10>>
CNl == <<99, 10>>

ExampleInputs == {Abc, AbcNl, ATabB, HelloWorld, ANlBNl, CNl}

Inputs == SeqsUpTo(Alphabet, MaxLen) \cup ExampleInputs

\* files whose counts reach the top of the counter range: "a\na\n...a" and
\* "\n\n...aa...a", each UINTMAX_MAX bytes long
BigANl == [k \in 1..UINTMAX_MAX |-> IF k % 2 = 1 THEN LetterA ELSE NL]
BigNlA == [k \in 1..UINTMAX_MAX |-> IF 2 * k <= UINTMAX_MAX + 1 THEN NL ELSE LetterA]

\* what std::ifstream {argv[i]} can be: readable, faulting, or not opened
FileStreams ==
    {Stream(d, FALSE, NoFault) : d \in {ANlBNl, BigANl, BigNlA}}
    \cup {Stream(ANlBNl, FALSE, 3), Stream(<<>>, TRUE, NoFault)}

StdinStreams == {Stream(CNl, FALSE, NoFault), Stream(ANlBNl, FALSE, 0)}

PathKinds == {"dir", "file", "-", "nofile"}

WcIdle ==
    /\ wopt = NoOptions
    /\ is = Stream(<<>>, FALSE, NoFault)
    /\ w = WcLocals0
    /\ wpc = "idle"
    /\ wret = Unexpected

MainIdle ==
    /\ argv_flags = <<>>
    /\ argv_files = <<>>
    /\ cin = Stream(<<>>, FALSE, NoFault)
    /\ options = NoOptions
    /\ mpc = "idle"
    /\ i = 0
    /\ nfiles = 0
    /\ total_stats = ZeroStats
    /\ out = <<>>
    /\ err = <<>>
    /\ exit_status = EXIT_SUCCESS
    /\ rets = <<>>

\* --------------------------------------------------- Spec: one call of wc()
Init ==
    /\ wopt \in AllOptions
    /\ is \in {Stream(d, FALSE, f) : d \in Inputs, f \in {NoFault, 0, 1, 2, 3}}
    /\ is.faultAt <= Len(is.data)
    /\ w = WcLocals0
    /\ wpc = "loop"
    /\ wret = Unexpected
    /\ MainIdle

\* wc.cpp:195-245, one iteration of `while (is)` that reads
wc_iteration ==
    /\ wpc = "loop"
    /\ Good(is)
    /\ LET r == is_read(is)
       IN  /\ is' = r.is
           /\ IF Len(r.buf) = 0
              THEN w' = w /\ wpc' = "final"
              ELSE w' = wc_chunk(wopt, w, r.buf) /\ wpc' = "loop"
    /\ UNCHANGED <<wopt, wret>>
    /\ UNCHANGED mainvars

\* wc.cpp:195, `while (is)` found false
wc_loop_end ==
    /\ wpc = "loop"
    /\ ~Good(is)
    /\ wpc' = "final"
    /\ UNCHANGED <<wopt, is, w, wret>>
    /\ UNCHANGED mainvars

\* wc.cpp:247-252
wc_finish ==
    /\ wpc = "final"
    /\ wret' = wc_return(w, is)
    /\ w' = [w EXCEPT !.stats.max_line_length =
                Max(w.line_pos, w.stats.max_line_length)]
    /\ wpc' = "done"
    /\ UNCHANGED <<wopt, is>>
    /\ UNCHANGED mainvars

Next == wc_iteration \/ wc_loop_end \/ wc_finish

Spec == Init /\ [][Next]_vars

\* ------------------------------------------------------- SpecMain: main()
InitMain ==
    /\ argv_flags \in SeqsUpTo(Flags, MaxFlags)
    /\ argv_files \in SeqsUpTo(PathKinds, MaxArgs)
    /\ cin \in StdinStreams
    /\ options = NoOptions
    /\ mpc = "parse"
    /\ i = 0
    /\ nfiles = 0
    /\ total_stats = ZeroStats
    /\ out = <<>>
    /\ err = <<>>
    /\ exit_status = EXIT_SUCCESS
    /\ rets = <<>>
    /\ WcIdle

argc == Len(argv_files)

Visited(kind, ran, ret) ==
    [kind |-> kind, ran |-> ran, ok |-> ret.ok,
     stats |-> IF ret.ok THEN ret.stats ELSE ZeroStats]

\* wc.cpp:311-323
main_parse ==
    /\ mpc = "parse"
    /\ LET p == parse_options(argv_flags)
       IN  IF p.ok
           THEN /\ options' = p.options
                /\ mpc' = "defaults"
                /\ UNCHANGED <<out, err, exit_status>>
           ELSE IF p.error = "help_requested"
           THEN /\ out' = Append(out, HelpText)
                /\ exit_status' = EXIT_SUCCESS
                /\ mpc' = "exit"
                /\ UNCHANGED <<options, err>>
           ELSE /\ err' = Append(err, usage_err)
                /\ exit_status' = EXIT_FAILURE
                /\ mpc' = "exit"
                /\ UNCHANGED <<options, out>>
    /\ UNCHANGED <<argv_flags, argv_files, cin, i, nfiles, total_stats, rets>>
    /\ UNCHANGED wcvars

\* wc.cpp:325-329
main_defaults ==
    /\ mpc = "defaults"
    /\ options' = default_options(options)
    /\ mpc' = "dispatch"
    /\ UNCHANGED <<argv_flags, argv_files, cin, i, nfiles, total_stats, out,
                   err, exit_status, rets>>
    /\ UNCHANGED wcvars

\* wc.cpp:331-334
main_stdin ==
    /\ mpc = "dispatch"
    /\ argc = 0
    /\ LET r == wc_file_stdin(options, cin, "stdin")
       IN  /\ cin' = r.is
           /\ out' = out \o r.out
           /\ err' = err \o r.err
           /\ exit_status' = r.status
           /\ rets' = Append(rets, Visited("stdin", TRUE, r.ret))
    /\ mpc' = "exit"
    /\ UNCHANGED <<argv_flags, argv_files, options, i, nfiles, total_stats>>
    /\ UNCHANGED wcvars

\* wc.cpp:336-339
main_loop_begin ==
    /\ mpc = "dispatch"
    /\ argc > 0
    /\ total_stats' = ZeroStats
    /\ nfiles' = argc
    /\ i' = 1
    /\ mpc' = "loop"
    /\ UNCHANGED <<argv_flags, argv_files, cin, options, out, err,
                   exit_status, rets>>
    /\ UNCHANGED wcvars

\* main_directory without the line of zeros
main_directory_no_line ==
    /\ mpc = "loop"
    /\ i <= argc
    /\ argv_files[i] = "dir"
    /\ err' = Append(err, IsDirErr(argv_files[i]))
    /\ rets' = Append(rets, Visited("dir", FALSE, Unexpected))
    /\ i' = i + 1
    /\ UNCHANGED <<argv_flags, argv_files, cin, options, mpc, nfiles,
                   total_stats, out, exit_status>>
    /\ UNCHANGED wcvars

\* wc.cpp:342-345
main_directory ==
    /\ mpc = "loop"
    /\ i <= argc
    /\ argv_files[i] = "dir"
    /\ err' = Append(err, IsDirErr(argv_files[i]))
    /\ out' = Append(out, write_counts(options, ZeroStats, argv_files[i]))
    /\ rets' = Append(rets, Visited("dir", FALSE, Unexpected))
    /\ i' = i + 1
    /\ UNCHANGED <<argv_flags, argv_files, cin, options, mpc, nfiles,
                   total_stats, exit_status>>
    /\ UNCHANGED wcvars

\* the tail shared by wc.cpp:349-352 and wc.cpp:354-357
AfterWcFile(r, kind) ==
    /\ out' = out \o r.out
    /\ err' = err \o r.err
    /\ total_stats' = r.total
    /\ rets' = Append(rets, Visited(kind, TRUE, r.ret))
    /\ IF r.status = EXIT_FAILURE
       THEN exit_status' = EXIT_FAILURE /\ mpc' = "exit" /\ i' = i
       ELSE exit_status' = exit_status /\ mpc' = "loop" /\ i' = i + 1

\* wc.cpp:346-352
main_regular_file ==
    /\ mpc = "loop"
    /\ i <= argc
    /\ argv_files[i] = "file"
    /\ \E file \in FileStreams :
          AfterWcFile(wc_file_total(options, file, argv_files[i], nfiles,
                                    total_stats), "file")
    /\ UNCHANGED <<argv_flags, argv_files, cin, options, nfiles>>
    /\ UNCHANGED wcvars

\* wc.cpp:353-357
main_dash ==
    /\ mpc = "loop"
    /\ i <= argc
    /\ argv_files[i] = "-"
    /\ LET r == wc_file_total(options, cin, argv_files[i], nfiles, total_stats)
       IN  /\ AfterWcFile(r, "-")
           /\ cin' = r.is
    /\ UNCHANGED <<argv_flags, argv_files, options, nfiles>>
    /\ UNCHANGED wcvars

\* wc.cpp:358-361
main_no_such_file ==
    /\ mpc = "loop"
    /\ i <= argc
    /\ argv_files[i] = "nofile"
    /\ err' = Append(err, NoSuchFileErr(argv_files[i]))
    /\ rets' = Append(rets, Visited("nofile", FALSE, Unexpected))
    /\ i' = i + 1
    /\ UNCHANGED <<argv_flags, argv_files, cin, options, mpc, nfiles,
                   total_stats, out, exit_status>>
    /\ UNCHANGED wcvars

\* main_total writing the total line whenever the loop ran
main_total_always ==
    /\ mpc = "loop"
    /\ i > argc
    /\ out' = Append(out, write_counts(options, total_stats, "total"))
    /\ exit_status' = EXIT_SUCCESS
    /\ mpc' = "exit"
    /\ UNCHANGED <<argv_flags, argv_files, cin, options, i, nfiles,
                   total_stats, err, rets>>
    /\ UNCHANGED wcvars

\* wc.cpp:364-367, reached when the for loop ends
main_total ==
    /\ mpc = "loop"
    /\ i > argc
    /\ out' = IF nfiles > 1
              THEN Append(out, write_counts(options, total_stats, "total"))
              ELSE out
    /\ exit_status' = EXIT_SUCCESS
    /\ mpc' = "exit"
    /\ UNCHANGED <<argv_flags, argv_files, cin, options, i, nfiles,
                   total_stats, err, rets>>
    /\ UNCHANGED wcvars

NextMain ==
    \/ main_parse
    \/ main_defaults
    \/ main_stdin
    \/ main_loop_begin
    \/ main_directory
    \/ main_regular_file
    \/ main_dash
    \/ main_no_such_file
    \/ main_total

SpecMain == InitMain /\ [][NextMain]_vars

\* ============================================================ properties
\* What the statistics are said to be, stated over the whole input.
Whitespace(c) == c \in {TAB, NL, VT, FF, CR, SP}

\* the maximal runs of non-whitespace bytes of s, each named by its first index
RunStarts(s) ==
    {k \in 1..Len(s) : ~Whitespace(s[k]) /\ (k = 1 \/ Whitespace(s[k - 1]))}

NumNewlines(s) == Cardinality({k \in 1..Len(s) : s[k] = NL})

\* the display width of a stretch of bytes that holds no line terminator
RECURSIVE SegWidth(_, _)
SegWidth(seg, n) ==
    IF n = 0 THEN 0
    ELSE LET col == SegWidth(seg, n - 1)
         IN  IF seg[n] = TAB THEN (col \div 8 + 1) * 8
             ELSE IF seg[n] = SP \/ isprint(seg[n]) THEN col + 1
             ELSE col

\* the segments of s: they end at \n, \r, \f, or at the end of the input
SegEnds(s) == {k \in 1..Len(s) : s[k] \in {NL, CR, FF}} \cup {Len(s) + 1}

SegStart(s, e) ==
    LET before == {k \in SegEnds(s) : k < e}
    IN  IF before = {} THEN 1
        ELSE (CHOOSE k \in before : \A j \in before : j <= k) + 1

SegWidths(s) ==
    {SegWidth(SubSeq(s, SegStart(s, e), e - 1), e - SegStart(s, e)) :
        e \in SegEnds(s)}

MaxWidth(s) == CHOOSE m \in SegWidths(s) : \A x \in SegWidths(s) : x <= m

Classifies(opts) ==
    opts.count_lines \/ opts.count_max_line_length \/ opts.count_words

Returned == wpc = "done" /\ wret.ok

C2_MaxLineLength ==
    (Returned /\ wopt.count_max_line_length)
        => /\ wret.stats.max_line_length = MaxWidth(is.data)
           /\ is.data = <<>> => wret.stats.max_line_length = 0
           /\ is.data \in {Abc, AbcNl} => wret.stats.max_line_length = 3
           /\ is.data = ATabB => wret.stats.max_line_length = 9

\* "a\tb" counted: the widest segment is the unterminated last line
C2_Witness ==
    /\ Returned /\ wopt.count_max_line_length
    /\ is.data = ATabB
    /\ wret.stats.max_line_length = 9

\* C3: the lines counter wc() reports is the number of \n bytes of the input,
\* whether or not the input ends in \n; \r and \f do not count.  (The counter
\* is computed, and can be reported, when lines, words or the max line
\* length is requested.)
C3_LinesAreNewlines ==
    (Returned /\ Classifies(wopt))
        => wret.stats.lines = NumNewlines(is.data)

\* lines requested; the input has a \n and a \r and does not end in \n
C3_Witness ==
    /\ Returned /\ wopt.count_lines
    /\ Len(is.data) > 0 /\ is.data[Len(is.data)] # NL
    /\ \E k \in 1..Len(is.data) : is.data[k] = CR
    /\ wret.stats.lines = 1

\* C4: for each of the 16 flag selections, when the input was read without a
\* fault, the bytes counter wc() returns is the length of the input.
C4_BytesAreLength ==
    Returned => wret.stats.bytes = Len(is.data)

\* no counter that needs classification requested, several chunks read
C4_Witness ==
    /\ Returned /\ ~Classifies(wopt)
    /\ Len(is.data) > bufsize
    /\ wret.stats.bytes = Len(is.data)

\* ------------------------------------------------- properties of main()
Parsed == parse_options(argv_flags)

\* option parsing ended without -h and without an unknown option
ParsedOk == Parsed.ok

ColNames(line) == [k \in 1..Len(line.cols) |-> line.cols[k].name]

IsTotalLine(line) == line.file = "total"

HasTotalLine(o) == \E k \in 1..Len(o) : IsTotalLine(o[k])

Overflowed(e) ==
    \E k \in 1..Len(e) : e[k].msg = "integer overflow in total"

\* the sources wc() ran over and returned statistics for
Counted == {k \in 1..Len(rets) : rets[k].ran /\ rets[k].ok}

RECURSIVE SumOf(_, _)
SumOf(S, field) ==
    IF S = {} THEN 0
    ELSE LET k == CHOOSE x \in S : TRUE
         IN  rets[k].stats[field] + SumOf(S \ {k}, field)

RECURSIVE MaxOf(_, _)
MaxOf(S, field) ==
    IF S = {} THEN 0
    ELSE LET k == CHOOSE x \in S : TRUE
             m == MaxOf(S \ {k}, field)
         IN  IF rets[k].stats[field] > m THEN rets[k].stats[field] ELSE m

\* C5 as claimed: with no counting flag given, all four flags are set before
\* any counting or output, and every output line carries all four counters.
C5_DefaultSetsAllFour ==
    (ParsedOk /\ Parsed.options = NoOptions /\ mpc \notin {"parse", "defaults"})
        => /\ options = [count_bytes |-> TRUE, count_lines |-> TRUE,
                         count_words |-> TRUE, count_max_line_length |-> TRUE]
           /\ \A k \in 1..Len(out) : Len(out[k].cols) = 4

\* C5 as amended: with no counting flag given, the lines, words and bytes
\* flags are set and the max-line-length flag is not, before any counting or
\* output; every output line carries exactly lines, words, bytes.
C5_DefaultSetsLinesWordsBytes ==
    (ParsedOk /\ Parsed.options = NoOptions /\ mpc \notin {"parse", "defaults"})
        => /\ options = [count_bytes |-> TRUE, count_lines |-> TRUE,
                         count_words |-> TRUE, count_max_line_length |-> FALSE]
           /\ \A k \in 1..Len(out) :
                  ColNames(out[k]) = <<"lines", "words", "bytes">>

\* a run without option arguments that has written lines for two sources
C5_Witness ==
    /\ argv_flags = <<>>
    /\ mpc = "exit"
    /\ Len(out) >= 2
    /\ ColNames(out[1]) = <<"lines", "words", "bytes">>

\* C6: in a run with more than one source, when adding a counted source's
\* lines, words or bytes to the total would exceed the maximum, the run ends
\* in that step with a failure status, no counter of the total is stored
\* wrapped, no total line is written, and nothing runs after the overflow.
C6_Step ==
    LET s == rets'[Len(rets')].stats
        over(f) == total_stats[f] + s[f] > UINTMAX_MAX
    IN  /\ ~Overflowed(err)
        /\ (/\ nfiles > 1
            /\ Len(rets') = Len(rets) + 1
            /\ rets'[Len(rets')].ran /\ rets'[Len(rets')].ok
            /\ over("lines") \/ over("words") \/ over("bytes"))
           => /\ mpc' = "exit"
              /\ exit_status' = EXIT_FAILURE
              /\ Overflowed(err')
              /\ ~HasTotalLine(out')
              /\ \A f \in {"lines", "words", "bytes"} :
                    /\ total_stats'[f] \in {total_stats[f], total_stats[f] + s[f]}
                    /\ over(f) => total_stats'[f] = total_stats[f]

C6_OverflowIsFatal == [][C6_Step]_vars

\* the run has ended on an overflow while an argument was still waiting
C6_Witness ==
    /\ Overflowed(err)
    /\ mpc = "exit" /\ exit_status = EXIT_FAILURE
    /\ Len(rets) < argc
    /\ ~HasTotalLine(out)

\* C7: a read fault gives no statistics.  For a named source the step writes
\* the diagnostic and nothing to standard output, leaves the total alone and
\* goes on to the next argument; for the implicit standard input the run ends
\* with a failure status.
C7_Step ==
    (/\ Len(rets') = Len(rets) + 1
     /\ rets'[Len(rets')].ran /\ ~rets'[Len(rets')].ok)
       => /\ out' = out
          /\ total_stats' = total_stats
          /\ IF argc = 0
             THEN /\ err' = Append(err, read_err("stdin"))
                  /\ mpc' = "exit"
                  /\ exit_status' = EXIT_FAILURE
             ELSE /\ err' = Append(err, read_err(argv_files[i]))
                  /\ mpc' = "loop"
                  /\ i' = i + 1
                  /\ exit_status' = exit_status

C7_ReadFault == [][C7_Step]_vars

\* a named source faulted and the next argument was counted and written
C7_Witness ==
    \E k \in 1..Len(rets) :
        /\ rets[k].ran /\ ~rets[k].ok
        /\ k < Len(rets) /\ rets[k + 1].ok
        /\ Len(out) >= 1
        /\ \E e \in 1..Len(err) : err[e].msg = "failed to process"

\* C8: a directory argument gets a diagnostic and one output line of zeros,
\* a nonexistent path gets a diagnostic and no output line; neither changes
\* the total, and the arguments after it are still visited in order.
C8_Step ==
    /\ (mpc = "loop" /\ i <= argc /\ argv_files[i] = "dir")
          => /\ err' = Append(err, IsDirErr(argv_files[i]))
             /\ Len(out') = Len(out) + 1
             /\ SubSeq(out', 1, Len(out)) = out
             /\ out'[Len(out')].file = argv_files[i]
             /\ ColNames(out'[Len(out')]) = ColNames(write_counts(options, ZeroStats, ""))
             /\ \A c \in 1..Len(out'[Len(out')].cols) :
                    out'[Len(out')].cols[c].value = 0
             /\ total_stats' = total_stats
             /\ mpc' = "loop" /\ i' = i + 1
    /\ (mpc = "loop" /\ i <= argc /\ argv_files[i] = "nofile")
          => /\ err' = Append(err, NoSuchFileErr(argv_files[i]))
             /\ out' = out
             /\ total_stats' = total_stats
             /\ mpc' = "loop" /\ i' = i + 1
    /\ (mpc' = "exit" /\ ~Overflowed(err') /\ argc > 0 /\ ParsedOk)
          => /\ Len(rets') = argc
             /\ \A k \in 1..argc : rets'[k].kind = argv_files[k]

C8_DirectoryAndMissing == [][C8_Step]_vars

\* a directory and a missing path came first and a later file was counted
C8_Witness ==
    /\ mpc = "exit"
    /\ argc = 3
    /\ argv_files[1] = "dir" /\ argv_files[2] = "nofile"
    /\ Len(rets) = 3
    /\ rets[3].ran /\ rets[3].ok
    /\ Len(out) >= 2

\* C9 as claimed: a run that ends without a fatal error writes the total line
\* exactly when more than one source was processed (had the counter run over
\* it and return statistics).
C9_TotalIffProcessed ==
    (mpc = "exit" /\ ParsedOk /\ exit_status = EXIT_SUCCESS)
        => (HasTotalLine(out) <=> Cardinality(Counted) > 1)

\* C9 as amended: a run that ends without a fatal error writes the total line
\* exactly when more than one positional argument was given, however many of
\* them were counted; when written it is the last line and the only such line.
C9_TotalIffGiven ==
    (mpc = "exit" /\ ParsedOk /\ exit_status = EXIT_SUCCESS)
        => /\ HasTotalLine(out) <=> argc > 1
           /\ HasTotalLine(out) =>
                 /\ IsTotalLine(out[Len(out)])
                 /\ \A k \in 1..(Len(out) - 1) : ~IsTotalLine(out[k])

\* two arguments were given, fewer than two were counted, the total is there
C9_Witness ==
    /\ mpc = "exit" /\ ParsedOk /\ exit_status = EXIT_SUCCESS
    /\ argc = 2
    /\ Cardinality(Counted) <= 1
    /\ Len(out) > 0
    /\ IsTotalLine(out[Len(out)])

\* C10: while no overflow has occurred in a run with more than one source,
\* the total's lines, words and bytes are the sums, and its max_line_length
\* the maximum, of the statistics of the counted sources, in whatever order
\* they came; the total line shows them.
C10_TotalIsSum ==
    (nfiles > 1 /\ ~Overflowed(err))
        => /\ total_stats.lines = SumOf(Counted, "lines")
           /\ total_stats.words = SumOf(Counted, "words")
           /\ total_stats.bytes = SumOf(Counted, "bytes")
           /\ total_stats.max_line_length = MaxOf(Counted, "max_line_length")
           /\ (mpc = "exit" /\ exit_status = EXIT_SUCCESS)
                 => out[Len(out)] = write_counts(options,
                        [lines |-> SumOf(Counted, "lines"),
                         words |-> SumOf(Counted, "words"),
                         bytes |-> SumOf(Counted, "bytes"),
                         max_line_length |-> MaxOf(Counted, "max_line_length")],
                        "total")

\* "c\n" counted before "a\nb\n": the total is 3 lines, 3 words, 6 bytes
C10_Witness ==
    /\ mpc = "exit" /\ exit_status = EXIT_SUCCESS
    /\ Len(rets) = 2 /\ Len(out) = 3
    /\ Cardinality(Counted) = 2
    /\ rets[1].stats.bytes = 2 /\ rets[2].stats.bytes = 4
    /\ total_stats.lines = 3 /\ total_stats.words = 3 /\ total_stats.bytes = 6
    /\ IsTotalLine(out[Len(out)])

====
